---- MODULE Spec2Model ----
(***************************************************************************)
(* Model of main.py: the /recipe handler (search, detail fetch joined     *)
(* with a provisional image URL, normalisation, Gemini blurb, final image  *)
(* URL) and the pure helpers it calls.                                     *)
(*                                                                         *)
(* Text is a sequence of atoms; the text of an input is made of            *)
(* one-character atoms, so that strip, split, title and quote are computed *)
(* character by character as Python does.                                  *)
(* A JSON value that may be missing is a record [tag, val]: tag "absent"   *)
(* (key not in the dict), "null" (JSON null / None), "str", "list", "num". *)
(***************************************************************************)
EXTENDS Integers, Sequences, FiniteSets, TLC

(***************************************************************************)
(* Bounds of the model                                                     *)
(***************************************************************************)
\* longest request description enumerated (the code allows up to 120)
MaxDescLen == 2
\* longest upstream title enumerated
MaxTitleLen == 1
\* longest ingredient name / original text enumerated
MaxNameLen == 1
MaxOrigLen == 1
\* most raw ingredients in a payload
MaxIngredients == 2
\* longest text of one analyzed step
MaxStepLen == 1
\* most steps in the first step group
MaxSteps == 2
\* most step groups in analyzedInstructions
MaxGroups == 2
\* longest free-text instructions field
MaxTextLen == 2
\* longest text a Gemini response / exception message carries
MaxBlurbLen == 1

(***************************************************************************)
(* Text constants of main.py.  A literal of the program is one atom of the *)
(* text it is part of; no operation of the program looks inside a literal  *)
(* except quote, which is given its result for the two prompt literals.    *)
(***************************************************************************)
\* main.py:30
POLLINATIONS_BASE == <<"https://image.pollinations.ai/prompt/">>
\* main.py:110, the text before {title} and the text after it
PromptPrefix == <<"high quality food photography of ">>
PromptSuffix == <<", plated, natural lighting">>
\* main.py:128
NoStepsMsg == <<"No step-by-step instructions were returned by the API for this recipe.">>
\* main.py:139
SentinelName == <<"N/A">>
NoIngredientsMsg == <<"No ingredients returned by the API.">>
\* main.py:135, the default of item.get("name", ...)
DefaultName == <<"ingredient">>
\* main.py:146
KeyNotSetMsg == <<"AI Studio key not set. (Set GOOGLE_AI_STUDIO_API_KEY to enable Gemini blurb.)">>
\* main.py:159
EmptyResponseMsg == <<"Gemini returned an empty response.">>
\* main.py:161, the text before {e}
GeminiErrorPrefix == <<"Gemini error: ">>

(***************************************************************************)
(* JSON values                                                             *)
(***************************************************************************)
Absent == [tag |-> "absent", val |-> <<>>]
Null == [tag |-> "null", val |-> <<>>]
Str(s) == [tag |-> "str", val |-> s]
List(l) == [tag |-> "list", val |-> l]
Num(n) == [tag |-> "num", val |-> n]

\* all sequences over S of length lo..hi
SeqsOf(S, lo, hi) == UNION {[1..n -> S] : n \in lo..hi}

(***************************************************************************)
(* Python string operations                                                *)
(***************************************************************************)
\* the whitespace str.strip() removes; the model's texts carry only the space
IsSpace(c) == c = " "

RECURSIVE LStrip(_)
LStrip(s) == IF s # <<>> /\ IsSpace(Head(s)) THEN LStrip(Tail(s)) ELSE s

RECURSIVE RStrip(_)
RStrip(s) ==
    IF s # <<>> /\ IsSpace(s[Len(s)]) THEN RStrip(SubSeq(s, 1, Len(s) - 1)) ELSE s

\* str.strip()
Strip(s) == RStrip(LStrip(s))

\* str.split("."): the segments between periods, empty ones included
RECURSIVE SplitFrom(_, _)
SplitFrom(s, cur) ==
    IF s = <<>> THEN <<cur>>
    ELSE IF Head(s) = "." THEN <<cur>> \o SplitFrom(Tail(s), <<>>)
    ELSE SplitFrom(Tail(s), Append(cur, Head(s)))

SplitPeriod(s) == SplitFrom(s, <<>>)

\* cased characters of the model's alphabets
IsLower(c) == c \in {"a", "b"}
IsUpper(c) == c \in {"A", "B"}
Upper(c) == IF c = "a" THEN "A" ELSE IF c = "b" THEN "B" ELSE c
Lower(c) == IF c = "A" THEN "a" ELSE IF c = "B" THEN "b" ELSE c

\* str.title(): a cased character is upper-cased after an uncased one and
\* lower-cased after a cased one
RECURSIVE TitleFrom(_, _)
TitleFrom(s, prevCased) ==
    IF s = <<>> THEN <<>>
    ELSE LET c == Head(s)
             cased == IsLower(c) \/ IsUpper(c)
         IN <<IF prevCased THEN Lower(c) ELSE Upper(c)>> \o TitleFrom(Tail(s), cased)

Title(s) == TitleFrom(s, FALSE)

\* urllib.parse.quote with the default safe="/": letters, digits and _.-~/
\* are kept, every other character becomes %XX
QuoteChar(c) ==
    IF c = " " THEN <<"%", "2", "0">>
    ELSE IF c = "," THEN <<"%", "2", "C">>
    ELSE IF <<c>> = PromptPrefix
    THEN <<"high%20quality%20food%20photography%20of%20">>
    ELSE IF <<c>> = PromptSuffix
    THEN <<"%2C%20plated%2C%20natural%20lighting">>
    ELSE <<c>>

RECURSIVE quote(_)
quote(s) == IF s = <<>> THEN <<>> ELSE QuoteChar(Head(s)) \o quote(Tail(s))

\* main.py:108-111
pollinations_image_url(title) ==
    POLLINATIONS_BASE \o quote(PromptPrefix \o title \o PromptSuffix)

\* dict.get(key) or "": None, a missing key and "" all become ""
OrEmpty(v) == IF v.tag = "str" THEN v.val ELSE <<>>


(***************************************************************************)
(* Recipe normaliser (pure functions of the detail payload)                *)
(***************************************************************************)
\* the non-empty trimmed step texts of a step list, in order (lines 118-121)
RECURSIVE CollectSteps(_)
CollectSteps(ss) ==
    IF ss = <<>> THEN <<>>
    ELSE LET step_text == Strip(OrEmpty(Head(ss).step))
         IN (IF step_text # <<>> THEN <<step_text>> ELSE <<>>) \o CollectSteps(Tail(ss))

\* [x.strip() for x in parts if x.strip()] (line 125)
RECURSIVE StripNonEmpty(_)
StripNonEmpty(parts) ==
    IF parts = <<>> THEN <<>>
    ELSE (IF Strip(Head(parts)) # <<>> THEN <<Strip(Head(parts))>> ELSE <<>>)
         \o StripNonEmpty(Tail(parts))

\* the steps before the placeholder is applied (lines 115-125)
StepsOf(info) ==
    LET analyzed == IF info.analyzedInstructions.tag = "list"
                    THEN info.analyzedInstructions.val ELSE <<>>
    IN IF analyzed # <<>> /\ analyzed[1].steps.tag = "list" /\ analyzed[1].steps.val # <<>>
       THEN CollectSteps(analyzed[1].steps.val)
       ELSE LET raw == Strip(OrEmpty(info.instructions))
            IN IF raw # <<>> THEN StripNonEmpty(SplitPeriod(raw)) ELSE <<>>

\* variant: the empty result is returned as it is, without the placeholder
extract_instructions_noplaceholder(info) == StepsOf(info)

\* variant: every step of the first group is kept, blank ones included
RECURSIVE AllStepTexts(_)
AllStepTexts(ss) ==
    IF ss = <<>> THEN <<>>
    ELSE <<Strip(OrEmpty(Head(ss).step))>> \o AllStepTexts(Tail(ss))

extract_instructions_keepblank(info) ==
    LET analyzed == IF info.analyzedInstructions.tag = "list"
                    THEN info.analyzedInstructions.val ELSE <<>>
        steps == IF analyzed # <<>> /\ analyzed[1].steps.tag = "list"
                    /\ analyzed[1].steps.val # <<>>
                 THEN AllStepTexts(analyzed[1].steps.val)
                 ELSE StepsOf(info)
    IN IF steps = <<>> THEN <<NoStepsMsg>> ELSE steps

\* main.py:114-129
extract_instructions(info) ==
    LET steps == StepsOf(info)
    IN IF steps = <<>> THEN <<NoStepsMsg>> ELSE steps

\* one raw entry to an Ingredient (lines 135-137)
IngredientOf(item) ==
    LET name == IF item.name.tag = "absent" THEN DefaultName ELSE item.name.val
        amt == Strip(OrEmpty(item.original))
    IN [name |-> name, amount |-> IF amt # <<>> THEN amt ELSE name]

RECURSIVE IngredientsOf(_)
IngredientsOf(items) ==
    IF items = <<>> THEN <<>>
    ELSE <<IngredientOf(Head(items))>> \o IngredientsOf(Tail(items))

\* info.get("extendedIngredients", []) or []
RawIngredients(info) ==
    IF info.extendedIngredients.tag = "list" THEN info.extendedIngredients.val ELSE <<>>

\* variant: the sentinel entry is not added
extract_ingredients_nosentinel(info) == IngredientsOf(RawIngredients(info))

\* main.py:132-140
extract_ingredients(info) ==
    LET out == IngredientsOf(RawIngredients(info))
    IN IF out = <<>>
       THEN <<[name |-> SentinelName, amount |-> NoIngredientsMsg]>>
       ELSE out

(***************************************************************************)
(* Gemini blurb                                                            *)
(***************************************************************************)
\* what the Gemini client does for one call: it raises an exception with a
\* message, or returns a response whose text attribute is missing, None or
\* a string
Raises(msg) == [kind |-> "raise", msg |-> msg, text |-> Absent]
Responds(text) == [kind |-> "text", msg |-> <<>>, text |-> text]

\* variant: the exception text alone is returned, without the prefix
gemini_blurb_sync_bare(title, key, sv) ==
    IF key = <<>> THEN KeyNotSetMsg
    ELSE IF sv.kind = "raise" THEN sv.msg
    ELSE LET text == Strip(OrEmpty(sv.text))
         IN IF text # <<>> THEN text ELSE EmptyResponseMsg

\* main.py:143-161; key is GOOGLE_AI_STUDIO_API_KEY, sv the service's behaviour
gemini_blurb_sync(title, key, sv) ==
    IF key = <<>> THEN KeyNotSetMsg
    ELSE IF sv.kind = "raise" THEN GeminiErrorPrefix \o sv.msg
    ELSE LET text == Strip(OrEmpty(sv.text))
         IN IF text # <<>> THEN text ELSE EmptyResponseMsg

(***************************************************************************)
(* State                                                                   *)
(***************************************************************************)
\* the requests in flight; each is one call of recipe()
Reqs == {"r1", "r2"}

VARIABLES
    SPOONACULAR_API_KEY,       \* main.py:25, read once at start-up
    GOOGLE_AI_STUDIO_API_KEY,  \* main.py:26
    pc,             \* per request: where recipe() stands
    client,         \* per request: id of its httpx.AsyncClient, 0 if none
    openClients,    \* ids of the AsyncClients currently open
    nextClient,     \* id the next AsyncClient() gets
    calls,          \* per request: the upstream calls issued, in order
    searchOutcome,  \* per request: how the search call ended
    infoTask,       \* per request: the spoonacular_info task of the gather
    imgTask,        \* per request: the to_thread image task of the gather
    locals,         \* per request: the local variables of recipe()
    blurbOutcome,   \* per request: how the Gemini call ended
    response,       \* per request: <<RecipeResponse>> once returned
    errors,         \* per request: the errors it ended with
    normIn,         \* payload handed to a normaliser function
    normOut,        \* what the function returned
    normPc          \* "off", "input" or "done"

vars == <<SPOONACULAR_API_KEY, GOOGLE_AI_STUDIO_API_KEY, pc, client,
          openClients, nextClient, calls, searchOutcome, infoTask, imgTask,
          locals, blurbOutcome, response, errors, normIn, normOut, normPc>>

keyVars == <<SPOONACULAR_API_KEY, GOOGLE_AI_STUDIO_API_KEY>>
normVars == <<normIn, normOut, normPc>>

\* a detail payload with every key missing
EmptyInfo ==
    [title |-> Absent, readyInMinutes |-> Absent, sourceUrl |-> Absent,
     extendedIngredients |-> Absent, analyzedInstructions |-> Absent,
     instructions |-> Absent]

\* the frame of recipe() before anything is assigned, and after it is left
NoLocals ==
    [query |-> <<>>, max_time |-> 0, recipe_id |-> 0, info |-> EmptyInfo,
     image_url |-> <<>>, title |-> <<>>, total_time |-> 0,
     ingredients |-> <<>>, instructions |-> <<>>, ai_blurb |-> <<>>]

\* a task of the gather: not started, running, done with its result, failed,
\* or joined (the gather has returned its result and dropped the task)
NoTask == [state |-> "idle", arg |-> <<>>, result |-> <<>>]
Running(arg) == [state |-> "running", arg |-> arg, result |-> <<>>]
Done(result) == [state |-> "done", arg |-> <<>>, result |-> result]
Failed(kind) == [state |-> kind, arg |-> <<>>, result |-> <<>>]
Joined == [state |-> "joined", arg |-> <<>>, result |-> <<>>]

\* RecipeRequest, main.py:58-60
MinDescLen == 1
MinTime == 5
MaxTime == 240
DefaultTime == 60

ValidRequest(d, m) == Len(d) >= MinDescLen /\ m >= MinTime /\ m <= MaxTime

(***************************************************************************)
(* Inputs                                                                  *)
(***************************************************************************)
Keys == {<<>>, <<"k">>}
Descriptions == SeqsOf({"a", " "}, 0, MaxDescLen)
MaxTimes == {MinTime - 1, DefaultTime}

HandlerTitles == {Absent, Null} \cup {Str(t) : t \in SeqsOf({"B", " "}, 0, MaxTitleLen)}

OneIngredient == <<[name |-> Str(<<"a">>), original |-> Str(<<"b">>)]>>

\* detail payloads the handler is run on: every title, in a payload with
\* nothing else and in a payload with time, source, ingredients and text
HandlerInfos ==
    {[EmptyInfo EXCEPT !.title = t] : t \in HandlerTitles}
    \cup {[title |-> t, readyInMinutes |-> Num(30), sourceUrl |-> Str(<<"u">>),
           extendedIngredients |-> List(OneIngredient),
           analyzedInstructions |-> Absent,
           instructions |-> Str(<<"a", ".">>)] : t \in HandlerTitles}

\* what the search endpoint can answer
SearchAnswers ==
    {[kind |-> k, results |-> <<>>] : k \in {"401", "http_error", "network"}}
    \cup {[kind |-> "ok", results |-> rs] : rs \in {<<>>, <<[id |-> 7]>>}}

DetailFailures == {"http_error", "network"}

GeminiBehaviours ==
    {Raises(m) : m \in SeqsOf({"x"}, 0, MaxBlurbLen)}
    \cup {Responds(t) : t \in {Absent, Null}
                           \cup {Str(x) : x \in SeqsOf({"c", " "}, 0, MaxBlurbLen)}}

(***************************************************************************)
(* Initial state                                                           *)
(***************************************************************************)
HandlerIdle ==
    /\ pc = [r \in Reqs |-> "idle"]
    /\ client = [r \in Reqs |-> 0]
    /\ openClients = {}
    /\ nextClient = 1
    /\ calls = [r \in Reqs |-> <<>>]
    /\ searchOutcome = [r \in Reqs |-> "none"]
    /\ infoTask = [r \in Reqs |-> NoTask]
    /\ imgTask = [r \in Reqs |-> NoTask]
    /\ locals = [r \in Reqs |-> NoLocals]
    /\ blurbOutcome = [r \in Reqs |-> "none"]
    /\ response = [r \in Reqs |-> <<>>]
    /\ errors = [r \in Reqs |-> <<>>]

NormOff ==
    /\ normIn = EmptyInfo
    /\ normOut = <<>>
    /\ normPc = "off"

Init ==
    /\ SPOONACULAR_API_KEY \in Keys
    /\ GOOGLE_AI_STUDIO_API_KEY \in Keys
    /\ HandlerIdle
    /\ NormOff

(***************************************************************************)
(* recipe(), main.py:164-208, one action per stretch between two awaits    *)
(***************************************************************************)
HTTPException(status, detail) ==
    [exc |-> "HTTPException", status |-> status, detail |-> detail]
\* an exception recipe() does not catch: the framework answers 500
Unhandled(exc) == [exc |-> exc, status |-> 500, detail |-> "Internal Server Error"]
\* the body fails RecipeRequest's validation: the framework answers 422
ValidationError ==
    [exc |-> "RequestValidationError", status |-> 422, detail |-> "validation"]

Call(op, c) == [op |-> op, client |-> c]

\* the request arrives; lines 165-178 up to the await inside spoonacular_search
RecipeBegin(r, d, m) ==
    /\ pc[r] = "idle"
    /\ IF ~ValidRequest(d, m)
       THEN /\ pc' = [pc EXCEPT ![r] = "rejected"]
            /\ errors' = [errors EXCEPT ![r] = Append(@, ValidationError)]
            /\ UNCHANGED <<client, openClients, nextClient, calls, locals>>
       ELSE IF SPOONACULAR_API_KEY = <<>>
       THEN /\ pc' = [pc EXCEPT ![r] = "error"]
            /\ errors' = [errors EXCEPT ![r] =
                   Append(@, HTTPException(500, "Server missing SPOONACULAR_API_KEY."))]
            /\ UNCHANGED <<client, openClients, nextClient, calls, locals>>
       ELSE /\ locals' = [locals EXCEPT ![r].query = Strip(d), ![r].max_time = m]
            /\ client' = [client EXCEPT ![r] = nextClient]
            /\ openClients' = openClients \cup {nextClient}
            /\ nextClient' = nextClient + 1
            /\ calls' = [calls EXCEPT ![r] = Append(@, Call("search", nextClient))]
            /\ pc' = [pc EXCEPT ![r] = "search"]
            /\ UNCHANGED errors
    /\ UNCHANGED <<searchOutcome, infoTask, imgTask, blurbOutcome, response>>
    /\ UNCHANGED <<keyVars, normVars>>

\* variant: the exception ends the request but the client stays open
Abort_leak(r, err) ==
    /\ UNCHANGED openClients
    /\ errors' = [errors EXCEPT ![r] = Append(@, err)]
    /\ locals' = [locals EXCEPT ![r] = NoLocals]
    /\ pc' = [pc EXCEPT ![r] = "error"]

\* an exception leaves the async with block of line 176: the client is
\* closed and the request ends with the error
Abort(r, err) ==
    /\ openClients' = openClients \ {client[r]}
    /\ errors' = [errors EXCEPT ![r] = Append(@, err)]
    /\ locals' = [locals EXCEPT ![r] = NoLocals]
    /\ pc' = [pc EXCEPT ![r] = "error"]

\* variant: the zero-result case answers like the 401 case
SearchError_same(ans) ==
    IF ans.kind \in {"http_error", "network"}
    THEN Unhandled(IF ans.kind = "network" THEN "RequestError" ELSE "HTTPStatusError")
    ELSE HTTPException(500, "Invalid SPOONACULAR_API_KEY (401).")

\* the error spoonacular_search ends with for an answer, lines 88-95
SearchError(ans) ==
    IF ans.kind = "401" THEN HTTPException(500, "Invalid SPOONACULAR_API_KEY (401).")
    ELSE IF ans.kind \in {"http_error", "network"}
    THEN Unhandled(IF ans.kind = "network" THEN "RequestError" ELSE "HTTPStatusError")
    ELSE HTTPException(404, "No recipes found for that query/time.")

SearchKind(ans) ==
    IF ans.kind # "ok" THEN ans.kind
    ELSE IF ans.results = <<>> THEN "empty" ELSE "found"

\* the search answer arrives; lines 88-96, then 182-185 up to the await of
\* the gather, which starts the detail fetch and the image thread
SearchReturns(r, ans) ==
    /\ pc[r] = "search"
    /\ searchOutcome' = [searchOutcome EXCEPT ![r] = SearchKind(ans)]
    /\ IF SearchKind(ans) # "found"
       THEN /\ Abort(r, SearchError(ans))
            /\ UNCHANGED <<calls, infoTask, imgTask>>
       ELSE /\ locals' = [locals EXCEPT ![r].recipe_id = ans.results[1].id]
            /\ calls' = [calls EXCEPT ![r] = Append(@, Call("info", client[r]))]
            /\ infoTask' = [infoTask EXCEPT ![r] = Running(<<>>)]
            /\ imgTask' = [imgTask EXCEPT ![r] = Running(locals[r].query)]
            /\ pc' = [pc EXCEPT ![r] = "gather"]
            /\ UNCHANGED <<openClients, errors>>
    /\ UNCHANGED <<client, nextClient, blurbOutcome, response>>
    /\ UNCHANGED <<keyVars, normVars>>

\* spoonacular_info gets its answer, lines 103-105
InfoReturns(r, payload) ==
    /\ infoTask[r].state = "running"
    /\ infoTask' = [infoTask EXCEPT ![r] = Done(payload)]
    /\ UNCHANGED <<pc, client, openClients, nextClient, calls, searchOutcome,
                   imgTask, locals, blurbOutcome, response, errors>>
    /\ UNCHANGED <<keyVars, normVars>>

\* spoonacular_info raises (raise_for_status, or the request itself fails)
InfoFails(r, kind) ==
    /\ infoTask[r].state = "running"
    /\ infoTask' = [infoTask EXCEPT ![r] = Failed(kind)]
    /\ UNCHANGED <<pc, client, openClients, nextClient, calls, searchOutcome,
                   imgTask, locals, blurbOutcome, response, errors>>
    /\ UNCHANGED <<keyVars, normVars>>

\* the worker thread finishes pollinations_image_url(query), line 183; it
\* runs to its end whether or not the gather has already raised
ImageThreadReturns(r) ==
    /\ imgTask[r].state = "running"
    /\ imgTask' = [imgTask EXCEPT ![r] = Done(pollinations_image_url(imgTask[r].arg))]
    /\ UNCHANGED <<pc, client, openClients, nextClient, calls, searchOutcome,
                   infoTask, locals, blurbOutcome, response, errors>>
    /\ UNCHANGED <<keyVars, normVars>>

\* line 187: (info.get("title") or query.title()).strip()
ResolveTitle(info, query) ==
    Strip(IF OrEmpty(info.title) # <<>> THEN info.title.val ELSE Title(query))

\* line 188: int(info.get("readyInMinutes") or max_time)
ResolveTime(info, max_time) ==
    IF info.readyInMinutes.tag = "num" /\ info.readyInMinutes.val # 0
    THEN info.readyInMinutes.val ELSE max_time

\* both gathered tasks are done: the gather returns, the async with block is
\* left (the client is closed), lines 185-194 up to the await of the blurb
GatherReturns(r) ==
    /\ pc[r] = "gather"
    /\ infoTask[r].state = "done"
    /\ imgTask[r].state = "done"
    /\ openClients' = openClients \ {client[r]}
    /\ LET info == infoTask[r].result
       IN locals' = [locals EXCEPT
              ![r].info = info,
              ![r].image_url = imgTask[r].result,
              ![r].title = ResolveTitle(info, locals[r].query),
              ![r].total_time = ResolveTime(info, locals[r].max_time),
              ![r].ingredients = extract_ingredients(info),
              ![r].instructions = extract_instructions(info)]
    /\ infoTask' = [infoTask EXCEPT ![r] = Joined]
    /\ imgTask' = [imgTask EXCEPT ![r] = Joined]
    /\ calls' = [calls EXCEPT ![r] = Append(@, Call("blurb", 0))]
    /\ pc' = [pc EXCEPT ![r] = "blurb"]
    /\ UNCHANGED <<client, nextClient, searchOutcome, blurbOutcome, response, errors>>
    /\ UNCHANGED <<keyVars, normVars>>

\* variant: the failure of the detail fetch is swallowed and the handler
\* goes on with an empty payload
GatherRaises_swallow(r) ==
    /\ pc[r] = "gather"
    /\ infoTask[r].state \in DetailFailures
    /\ openClients' = openClients \ {client[r]}
    /\ locals' = [locals EXCEPT
              ![r].title = ResolveTitle(EmptyInfo, locals[r].query),
              ![r].total_time = locals[r].max_time,
              ![r].ingredients = extract_ingredients(EmptyInfo),
              ![r].instructions = extract_instructions(EmptyInfo)]
    /\ calls' = [calls EXCEPT ![r] = Append(@, Call("blurb", 0))]
    /\ pc' = [pc EXCEPT ![r] = "blurb"]
    /\ UNCHANGED <<client, nextClient, searchOutcome, infoTask, imgTask,
                   blurbOutcome, response, errors>>
    /\ UNCHANGED <<keyVars, normVars>>

\* the detail fetch has failed: the gather raises at once, whatever the image
\* thread is doing, and the exception leaves the async with block (line 185)
GatherRaises(r) ==
    /\ pc[r] = "gather"
    /\ infoTask[r].state \in DetailFailures
    /\ Abort(r, Unhandled(IF infoTask[r].state = "network" THEN "RequestError"
                          ELSE "HTTPStatusError"))
    /\ UNCHANGED <<client, nextClient, calls, searchOutcome, infoTask, imgTask,
                   blurbOutcome, response>>
    /\ UNCHANGED <<keyVars, normVars>>

BlurbKind(key, sv) ==
    IF key = <<>> THEN "nokey"
    ELSE IF sv.kind = "raise" THEN "raise"
    ELSE IF Strip(OrEmpty(sv.text)) = <<>> THEN "empty" ELSE "text"

\* lines 199-208; source_url is info.get("sourceUrl")
RecipeResponse(l) ==
    [title |-> l.title, image_url |-> l.image_url,
     total_time_minutes |-> l.total_time, source_url |-> l.info.sourceUrl,
     ingredients |-> l.ingredients, instructions |-> l.instructions,
     ai_blurb |-> l.ai_blurb,
     api_used |-> "Spoonacular (recipes) + Pollinations (image) + Google AI Studio Gemini (blurb)"]

\* variant: the image URL of the gather is kept, line 197 is missing
BlurbReturns_provisional(r, sv) ==
    /\ pc[r] = "blurb"
    /\ blurbOutcome' = [blurbOutcome EXCEPT ![r] = BlurbKind(GOOGLE_AI_STUDIO_API_KEY, sv)]
    /\ LET l == [locals[r] EXCEPT
                   !.ai_blurb = gemini_blurb_sync(locals[r].title,
                                                  GOOGLE_AI_STUDIO_API_KEY, sv)]
       IN response' = [response EXCEPT ![r] = <<RecipeResponse(l)>>]
    /\ locals' = [locals EXCEPT ![r] = NoLocals]
    /\ pc' = [pc EXCEPT ![r] = "done"]
    /\ UNCHANGED <<client, openClients, nextClient, calls, searchOutcome, infoTask,
                   imgTask, errors>>
    /\ UNCHANGED <<keyVars, normVars>>

\* the blurb thread returns; lines 194-208
BlurbReturns(r, sv) ==
    /\ pc[r] = "blurb"
    /\ blurbOutcome' = [blurbOutcome EXCEPT ![r] = BlurbKind(GOOGLE_AI_STUDIO_API_KEY, sv)]
    /\ LET l == [locals[r] EXCEPT
                   !.ai_blurb = gemini_blurb_sync(locals[r].title,
                                                  GOOGLE_AI_STUDIO_API_KEY, sv),
                   !.image_url = pollinations_image_url(locals[r].title)]
       IN response' = [response EXCEPT ![r] = <<RecipeResponse(l)>>]
    /\ locals' = [locals EXCEPT ![r] = NoLocals]
    /\ pc' = [pc EXCEPT ![r] = "done"]
    /\ UNCHANGED <<client, openClients, nextClient, calls, searchOutcome, infoTask,
                   imgTask, errors>>
    /\ UNCHANGED <<keyVars, normVars>>

Next ==
    \/ \E r \in Reqs, d \in Descriptions, m \in MaxTimes : RecipeBegin(r, d, m)
    \/ \E r \in Reqs, ans \in SearchAnswers : SearchReturns(r, ans)
    \/ \E r \in Reqs, payload \in HandlerInfos : InfoReturns(r, payload)
    \/ \E r \in Reqs, kind \in DetailFailures : InfoFails(r, kind)
    \/ \E r \in Reqs : ImageThreadReturns(r)
    \/ \E r \in Reqs : GatherReturns(r)
    \/ \E r \in Reqs : GatherRaises(r)
    \/ \E r \in Reqs, sv \in GeminiBehaviours : BlurbReturns(r, sv)

Spec == Init /\ [][Next]_vars

(***************************************************************************)
(* The normaliser functions on their own: the payload is drawn in the      *)
(* initial state and the function is applied to it.                        *)
(***************************************************************************)
\* a raw entry's name is missing or a string, the empty one included; a name
\* of another JSON type does not pass the Ingredient model (name: str)
IngredientNames ==
    {Absent} \cup {Str(n) : n \in SeqsOf({"a", " "}, 0, MaxNameLen)}
IngredientOriginals ==
    {Absent, Null} \cup {Str(o) : o \in SeqsOf({"b", " "}, 0, MaxOrigLen)}
RawItems == {[name |-> n, original |-> o] : n \in IngredientNames, o \in IngredientOriginals}

IngredientInfos ==
    {[EmptyInfo EXCEPT !.extendedIngredients = e] :
        e \in {Absent, Null} \cup {List(l) : l \in SeqsOf(RawItems, 0, MaxIngredients)}}

StepTexts == {Absent, Null} \cup {Str(t) : t \in SeqsOf({"a", " "}, 0, MaxStepLen)}
RawSteps == {[step |-> t] : t \in StepTexts}
FirstGroups ==
    {[steps |-> ss] :
        ss \in {Absent, Null} \cup {List(l) : l \in SeqsOf(RawSteps, 0, MaxSteps)}}
\* the groups after the first, which the function never reads
LaterGroups == {[steps |-> Absent], [steps |-> List(<<[step |-> Str(<<"z">>)]>>)]}
AnalyzedValues ==
    {Absent, Null, List(<<>>)}
    \cup {List(<<g>> \o rest) : g \in FirstGroups, rest \in SeqsOf(LaterGroups, 0, MaxGroups - 1)}
InstructionTexts ==
    {Absent, Null} \cup {Str(t) : t \in SeqsOf({"a", " ", "."}, 0, MaxTextLen)}

InstructionInfos ==
    {[EmptyInfo EXCEPT !.analyzedInstructions = an, !.instructions = tx] :
        an \in AnalyzedValues, tx \in InstructionTexts}

ConfiguredIdle ==
    /\ SPOONACULAR_API_KEY = <<"k">>
    /\ GOOGLE_AI_STUDIO_API_KEY = <<"k">>
    /\ HandlerIdle

handlerVars == <<pc, client, openClients, nextClient, calls, searchOutcome, infoTask,
                 imgTask, locals, blurbOutcome, response, errors>>

InitIngredients ==
    /\ ConfiguredIdle
    /\ normIn \in IngredientInfos
    /\ normOut = <<>>
    /\ normPc = "input"

ApplyExtractIngredients ==
    /\ normPc = "input"
    /\ normOut' = extract_ingredients(normIn)
    /\ normPc' = "done"
    /\ UNCHANGED <<normIn, keyVars, handlerVars>>

NextIngredients == ApplyExtractIngredients

SpecIngredients == InitIngredients /\ [][NextIngredients]_vars

InitInstructions ==
    /\ ConfiguredIdle
    /\ normIn \in InstructionInfos
    /\ normOut = <<>>
    /\ normPc = "input"

ApplyExtractInstructions ==
    /\ normPc = "input"
    /\ normOut' = extract_instructions(normIn)
    /\ normPc' = "done"
    /\ UNCHANGED <<normIn, keyVars, handlerVars>>

NextInstructions == ApplyExtractInstructions

SpecInstructions == InitInstructions /\ [][NextInstructions]_vars

(***************************************************************************)
(* Properties                                                              *)
(***************************************************************************)
Ops(r) == [i \in 1..Len(calls[r]) |-> calls[r][i].op]
Issued(r, op) == Cardinality({i \in 1..Len(calls[r]) : calls[r][i].op = op})
Succeeded(r) == pc[r] = "done" /\ Len(response[r]) = 1 /\ errors[r] = <<>>
EndedInError(r) == pc[r] = "error" /\ Len(errors[r]) = 1 /\ response[r] = <<>>

\* C1: once the blurb call has been issued the request cannot end in an
\* error, and whatever the Gemini call did (key missing, exception, empty or
\* blank text, real text) the request has returned a RecipeResponse whose
\* ai_blurb is not empty.
C1_BlurbNeverFailsRequest ==
    \A r \in Reqs :
        /\ Issued(r, "blurb") > 0 => pc[r] \in {"blurb", "done"} /\ errors[r] = <<>>
        /\ blurbOutcome[r] # "none" => Succeeded(r) /\ response[r][1].ai_blurb # <<>>

C1_Witness ==
    \E r \in Reqs :
        /\ blurbOutcome[r] = "raise"
        /\ Succeeded(r)
        /\ response[r][1].ai_blurb = GeminiErrorPrefix

C3_AmountNeverEmpty ==
    normPc = "done" =>
        \A i \in 1..Len(normOut) :
            /\ normOut[i].amount # <<>>
            /\ normIn.extendedIngredients.tag = "list"
               /\ normIn.extendedIngredients.val # <<>> =>
                   LET orig == normIn.extendedIngredients.val[i].original
                       trimmed == IF orig.tag = "str" THEN Strip(orig.val) ELSE <<>>
                   IN normOut[i].amount =
                          IF trimmed # <<>> THEN trimmed ELSE normOut[i].name

\* C4: the title of every successful /recipe response is not empty.
C4_TitleNeverEmpty ==
    \A r \in Reqs : Succeeded(r) => response[r][1].title # <<>>

\* C5: extract_instructions never returns an empty sequence; when neither
\* the steps of the first group nor the free text holds a step, it returns
\* exactly the placeholder message.
HasStepText(info) ==
    /\ info.analyzedInstructions.tag = "list"
    /\ info.analyzedInstructions.val # <<>>
    /\ LET first == info.analyzedInstructions.val[1].steps
       IN /\ first.tag = "list"
          /\ \E i \in 1..Len(first.val) :
                 /\ first.val[i].step.tag = "str"
                 /\ \E k \in 1..Len(first.val[i].step.val) :
                        first.val[i].step.val[k] # " "

HasFreeText(info) ==
    /\ info.instructions.tag = "str"
    /\ \E k \in 1..Len(info.instructions.val) : info.instructions.val[k] \notin {" ", "."}

C5_InstructionsNonEmpty ==
    normPc = "done" =>
        /\ Len(normOut) >= 1
        /\ \A i \in 1..Len(normOut) : normOut[i] # <<>>
        /\ (~HasStepText(normIn) /\ ~HasFreeText(normIn)) => normOut = <<NoStepsMsg>>

C5_Witness ==
    /\ normPc = "done"
    /\ normIn.analyzedInstructions.tag = "list"
    /\ normIn.analyzedInstructions.val # <<>>
    /\ normIn.analyzedInstructions.val[1].steps = List(<<[step |-> Str(<<" ">>)]>>)
    /\ normIn.instructions = Str(<<".", " ">>)
    /\ normOut = <<NoStepsMsg>>

\* C6: a search with zero results ends the request with a 404 and a search
\* the upstream rejects with 401 ends it with a 500; the two differ in
\* status and in message, and in both the search is the only upstream call
\* and no RecipeResponse is returned.
C6_NotFoundVersusAuth ==
    /\ \A r \in Reqs :
           /\ searchOutcome[r] = "empty" =>
                  /\ EndedInError(r)
                  /\ errors[r][1].status \in 400..499
                  /\ errors[r][1].status = 404
                  /\ Ops(r) = <<"search">>
           /\ searchOutcome[r] = "401" =>
                  /\ EndedInError(r)
                  /\ errors[r][1].status \in 500..599
                  /\ Ops(r) = <<"search">>
    /\ \A r1, r2 \in Reqs :
           searchOutcome[r1] = "empty" /\ searchOutcome[r2] = "401" =>
               /\ errors[r1][1].status # errors[r2][1].status
               /\ errors[r1][1].detail # errors[r2][1].detail

C6_Witness ==
    \E r1, r2 \in Reqs :
        /\ searchOutcome[r1] = "empty" /\ EndedInError(r1)
        /\ searchOutcome[r2] = "401" /\ EndedInError(r2)

\* C7: within a request each upstream call is issued at most once, and a
\* missing Spoonacular key, a failed search or a failed detail fetch aborts
\* it: no upstream call follows the failure, no response is returned, and
\* the request ends with exactly one error.
C7_SingleAttemptAndAbort ==
    \A r \in Reqs :
        /\ \A op \in {"search", "info", "blurb"} : Issued(r, op) <= 1
        /\ Len(errors[r]) <= 1
        /\ (SPOONACULAR_API_KEY = <<>> /\ pc[r] \notin {"idle", "rejected"}) =>
               EndedInError(r) /\ Ops(r) = <<>>
        /\ searchOutcome[r] \notin {"none", "found"} =>
               EndedInError(r) /\ Ops(r) = <<"search">>
        /\ infoTask[r].state \in DetailFailures =>
               /\ Ops(r) = <<"search", "info">>
               /\ response[r] = <<>>
               /\ \/ pc[r] = "gather" /\ errors[r] = <<>>
                  \/ EndedInError(r)

C7_Witness ==
    \E r \in Reqs :
        /\ infoTask[r].state \in DetailFailures
        /\ imgTask[r].state = "done"
        /\ EndedInError(r)
        /\ Ops(r) = <<"search", "info">>

\* C8: when a request has ended, with a response or with an error, the
\* client it opened is closed; no two requests have the same client, and a
\* request's upstream calls go through its own client only.
C8_ClientReleasedAndOwned ==
    /\ \A r \in Reqs :
           /\ pc[r] \in {"done", "error"} => client[r] \notin openClients
           /\ \A i \in 1..Len(calls[r]) :
                  calls[r][i].op \in {"search", "info"} =>
                      calls[r][i].client # 0 /\ calls[r][i].client = client[r]
    /\ \A r1, r2 \in Reqs : r1 # r2 /\ client[r1] # 0 => client[r1] # client[r2]

C8_Witness ==
    \E r1, r2 \in Reqs :
        /\ r1 # r2
        /\ client[r1] # 0 /\ client[r2] # 0
        /\ infoTask[r1].state \in DetailFailures /\ pc[r1] = "error"
        /\ pc[r2] = "done"
        /\ openClients = {}

\* C9: the blurb call starts only when the detail fetch and the provisional
\* image task have both completed, and the image_url of a response is the
\* one derived from its title.
C9_JoinBeforeBlurb ==
    /\ [][\A r \in Reqs :
              (pc[r] # "blurb" /\ pc'[r] = "blurb") =>
                  infoTask[r].state = "done" /\ imgTask[r].state = "done"]_vars
    /\ [](\A r \in Reqs :
              Len(response[r]) = 1 =>
                  response[r][1].image_url = pollinations_image_url(response[r][1].title))

C9_Witness ==
    \E r \in Reqs :
        /\ Succeeded(r)
        /\ response[r][1].title = <<"B">>
        /\ response[r][1].image_url = pollinations_image_url(<<"B">>)

====
